---- MODULE Spec2Model ----
(***************************************************************************)
(* Model of src/src/dfa.js: the spec validators, the DFA and NFA           *)
(* transition-table builders and the DFA and NFA engines.                  *)
(*                                                                         *)
(* JavaScript values are modelled as TLA+ strings.  A declared identifier  *)
(* is its own text; the three non-string values that occur are tagged      *)
(* strings told apart by TypeOf.  A JavaScript Set is a TLA+ set, an array *)
(* is a sequence, a plain object is a function whose DOMAIN is its keys.   *)
(***************************************************************************)
EXTENDS Integers, Sequences, FiniteSets, TLC

VARIABLES spec, dfa, nfa, twin, call

vars == <<spec, dfa, nfa, twin, call>>

(***************************************************************************)
(* Bounds of the model.                                                    *)
(***************************************************************************)
\* longest transition list of the enumerated well-formed specs
MaxTrans == 2
\* longest NFA active collection the model follows
MaxActive == 4

(***************************************************************************)
(* JavaScript values.                                                      *)
(***************************************************************************)
\* the number 7, a value whose typeof is not 'string'
Num7 == "#number:7"

\* an instance of class ErrorState
ErrorState == "#object:ErrorState"

\* the typeof operator
TypeOf(x) ==
    IF x = Num7 THEN "number"
    ELSE IF x = ErrorState THEN "object"
    ELSE "string"

\* x instanceof ErrorState
InstanceOfErrorState(x) == x = ErrorState

\* String.prototype.trim on the strings of the model
Trim(x) == IF x \in {" ", "  "} THEN "" ELSE x

\* String.prototype.length, as far as the code reads it (zero or not)
StrLength(x) == IF x = "" THEN 0 ELSE IF x = "  " THEN 2 ELSE 1

\* obj[k] === undefined for a plain object
IsUndefinedAt(obj, k) == k \notin DOMAIN obj

\* obj[k] = v
Put(obj, k, v) == [x \in (DOMAIN obj) \cup {k} |-> IF x = k THEN v ELSE obj[x]]

\* the object literal {}
EmptyObject == [x \in {} |-> {}]

(***************************************************************************)
(* Outcome of a call: a returned value or a thrown Error.                  *)
(***************************************************************************)
NoError == [msg |-> "none", value |-> <<>>]

Return(v) == [threw |-> FALSE, value |-> v, error |-> NoError]

Throw(m, v) == [threw |-> TRUE, value |-> {}, error |-> [msg |-> m, value |-> v]]

\* a method throws: the Error, and the receiver as the method leaves it
ThrowFrom(self, m, v) == [threw |-> TRUE, value |-> self, error |-> [msg |-> m, value |-> v]]

(***************************************************************************)
(* validateDFAProperties                                                   *)
(***************************************************************************)
\* the argument undefined
NoSpec == [undefined |-> TRUE]

\* !dfa.f : the property is absent, or is the empty string
Falsy(d, f) == f \notin DOMAIN d \/ (f = "initialState" /\ d[f] = "")

validateDFAProperties(d) ==
    IF d = NoSpec THEN Throw("dfa object not defined in constructor.", <<>>)
    ELSE IF Falsy(d, "alphabet") THEN Throw("dfa alphabet property not defined.", <<>>)
    ELSE IF Falsy(d, "states") THEN Throw("dfa states property not defined.", <<>>)
    ELSE IF Falsy(d, "initialState") THEN Throw("dfa initialState property not defined.", <<>>)
    ELSE IF Falsy(d, "finalStates") THEN Throw("dfa finalStates property not defined.", <<>>)
    ELSE IF Falsy(d, "transitions") THEN Throw("dfa transitions property not defined", <<>>)
    ELSE Return(TRUE)

(***************************************************************************)
(* validateAlphabet, validateStates                                        *)
(***************************************************************************)
RECURSIVE alphabetForEach(_, _, _)
alphabetForEach(xs, i, result) ==
    IF i > Len(xs) THEN Return(result)
    ELSE LET x == xs[i] IN
         IF TypeOf(x) # "string" THEN Throw("symbol in alphabet must be a string", <<x>>)
         ELSE IF x \in result THEN Throw("duplicate symbol in alphabet", <<x>>)
         ELSE IF StrLength(Trim(x)) = 0
              THEN Throw("symbol in alphabet must not be solely whitespace.", <<>>)
         ELSE alphabetForEach(xs, i + 1, result \cup {x})

validateAlphabet(d) == alphabetForEach(d.alphabet, 1, {})

RECURSIVE statesForEach(_, _, _)
statesForEach(xs, i, result) ==
    IF i > Len(xs) THEN Return(result)
    ELSE LET x == xs[i] IN
         IF TypeOf(x) # "string" THEN Throw("symbol in states must be a string", <<x>>)
         ELSE IF x \in result THEN Throw("duplicate symbol in states", <<x>>)
         ELSE IF StrLength(Trim(x)) = 0
              THEN Throw("symbol in states must not be solely whitespace.", <<>>)
         ELSE statesForEach(xs, i + 1, result \cup {x})

validateStates(d) == statesForEach(d.states, 1, {})

(***************************************************************************)
(* validateInitialState, validateFinalStates                               *)
(***************************************************************************)
\* a validator that does not look the initial state up in the state set
validateInitialState_NoLookup(d, states) ==
    IF TypeOf(d.initialState) # "string"
    THEN Throw("initialState must be a string", <<d.initialState>>)
    ELSE IF StrLength(Trim(d.initialState)) = 0
         THEN Throw("initialState must not be solely whitespace.", <<>>)
    ELSE Return(TRUE)

validateInitialState(d, states) ==
    IF TypeOf(d.initialState) # "string"
    THEN Throw("initialState must be a string", <<d.initialState>>)
    ELSE IF d.initialState \notin states THEN Throw("initialState is not a valid state.", <<>>)
    ELSE IF StrLength(Trim(d.initialState)) = 0
         THEN Throw("initialState must not be solely whitespace.", <<>>)
    ELSE Return(TRUE)

RECURSIVE finalStatesForEach(_, _, _, _)
finalStatesForEach(xs, i, result, states) ==
    IF i > Len(xs) THEN Return(result)
    ELSE LET x == xs[i] IN
         IF TypeOf(x) # "string" THEN Throw("symbol in finalStates must be a string", <<x>>)
         ELSE IF x \in result THEN Throw("duplicate symbol in finalStates", <<x>>)
         ELSE IF x \notin states
              THEN Throw("symbol for finalStates is not a defined state.", <<x>>)
         ELSE finalStatesForEach(xs, i + 1, result \cup {x}, states)

validateFinalStates(d, states) == finalStatesForEach(d.finalStates, 1, {}, states)

(***************************************************************************)
(* validateTransitionsDFA, validateTransitionsNFA                          *)
(***************************************************************************)
RECURSIVE transitionsDFAForEach(_, _, _, _, _)
transitionsDFAForEach(xs, i, result, states, alphabet) ==
    IF i > Len(xs) THEN Return(result)
    ELSE LET x == xs[i]
             notString == {k \in 1..Len(x) : TypeOf(x[k]) # "string"}
         IN
         IF Len(x) # 3 THEN Throw("transition must be a 3-tuple of strings", x)
         ELSE IF notString # {}
              THEN Throw("transition must be a 3-tuple of strings, element",
                         <<x[CHOOSE k \in notString : \A j \in notString : k <= j]>>)
         ELSE IF x[1] \notin states
              THEN Throw("first symbol of transition must be a valid state", <<x[1]>>)
         ELSE IF x[2] \notin states
              THEN Throw("second symbol of transition must be a valid state", <<x[2]>>)
         ELSE IF x[3] \notin alphabet
              THEN Throw("third symbol of transition must be a valid symbol in the alphabet",
                         <<x[3]>>)
         ELSE IF ~IsUndefinedAt(result, x[1]) /\ ~IsUndefinedAt(result[x[1]], x[3])
              THEN Throw("this transition results in non-deterministic behavior", x)
         ELSE LET row == IF IsUndefinedAt(result, x[1]) THEN EmptyObject ELSE result[x[1]]
              IN  transitionsDFAForEach(xs, i + 1, Put(result, x[1], Put(row, x[3], x[2])),
                                        states, alphabet)

\* a builder without the check for an existing entry: a later tuple overwrites it
RECURSIVE transitionsOverwriteForEach(_, _, _, _, _)
transitionsOverwriteForEach(xs, i, result, states, alphabet) ==
    IF i > Len(xs) THEN Return(result)
    ELSE LET x == xs[i]
             notString == {k \in 1..Len(x) : TypeOf(x[k]) # "string"}
         IN
         IF Len(x) # 3 THEN Throw("transition must be a 3-tuple of strings", x)
         ELSE IF notString # {}
              THEN Throw("transition must be a 3-tuple of strings, element",
                         <<x[CHOOSE k \in notString : \A j \in notString : k <= j]>>)
         ELSE IF x[1] \notin states
              THEN Throw("first symbol of transition must be a valid state", <<x[1]>>)
         ELSE IF x[2] \notin states
              THEN Throw("second symbol of transition must be a valid state", <<x[2]>>)
         ELSE IF x[3] \notin alphabet
              THEN Throw("third symbol of transition must be a valid symbol in the alphabet",
                         <<x[3]>>)
         ELSE LET row == IF IsUndefinedAt(result, x[1]) THEN EmptyObject ELSE result[x[1]]
              IN  transitionsOverwriteForEach(xs, i + 1,
                                              Put(result, x[1], Put(row, x[3], x[2])),
                                              states, alphabet)

validateTransitionsDFA_Overwrite(d, states, alphabet) ==
    transitionsOverwriteForEach(d.transitions, 1, EmptyObject, states, alphabet)

\* a builder that lets a tuple through when the existing entry names the same to state
RECURSIVE transitionsTolerantForEach(_, _, _, _, _)
transitionsTolerantForEach(xs, i, result, states, alphabet) ==
    IF i > Len(xs) THEN Return(result)
    ELSE LET x == xs[i]
             notString == {k \in 1..Len(x) : TypeOf(x[k]) # "string"}
         IN
         IF Len(x) # 3 THEN Throw("transition must be a 3-tuple of strings", x)
         ELSE IF notString # {}
              THEN Throw("transition must be a 3-tuple of strings, element",
                         <<x[CHOOSE k \in notString : \A j \in notString : k <= j]>>)
         ELSE IF x[1] \notin states
              THEN Throw("first symbol of transition must be a valid state", <<x[1]>>)
         ELSE IF x[2] \notin states
              THEN Throw("second symbol of transition must be a valid state", <<x[2]>>)
         ELSE IF x[3] \notin alphabet
              THEN Throw("third symbol of transition must be a valid symbol in the alphabet",
                         <<x[3]>>)
         ELSE IF /\ ~IsUndefinedAt(result, x[1])
                 /\ ~IsUndefinedAt(result[x[1]], x[3])
                 /\ result[x[1]][x[3]] # x[2]
              THEN Throw("this transition results in non-deterministic behavior", x)
         ELSE LET row == IF IsUndefinedAt(result, x[1]) THEN EmptyObject ELSE result[x[1]]
              IN  transitionsTolerantForEach(xs, i + 1, Put(result, x[1], Put(row, x[3], x[2])),
                                        states, alphabet)

validateTransitionsDFA_TolerateDuplicate(d, states, alphabet) ==
    transitionsTolerantForEach(d.transitions, 1, EmptyObject, states, alphabet)

validateTransitionsDFA(d, states, alphabet) ==
    transitionsDFAForEach(d.transitions, 1, EmptyObject, states, alphabet)

RECURSIVE transitionsNFAForEach(_, _, _, _, _)
transitionsNFAForEach(xs, i, result, states, alphabet) ==
    IF i > Len(xs) THEN Return(result)
    ELSE LET x == xs[i]
             notString == {k \in 1..Len(x) : TypeOf(x[k]) # "string"}
         IN
         IF Len(x) # 3 THEN Throw("transition must be a 3-tuple of strings", x)
         ELSE IF notString # {}
              THEN Throw("transition must be a 3-tuple of strings, element",
                         <<x[CHOOSE k \in notString : \A j \in notString : k <= j]>>)
         ELSE IF x[1] \notin states
              THEN Throw("first symbol of transition must be a valid state", <<x[1]>>)
         ELSE IF x[2] \notin states
              THEN Throw("second symbol of transition must be a valid state", <<x[2]>>)
         ELSE IF x[3] \notin alphabet
              THEN Throw("third symbol of transition must be a valid symbol in the alphabet",
                         <<x[3]>>)
         ELSE LET row == IF IsUndefinedAt(result, x[1]) THEN EmptyObject ELSE result[x[1]]
                  cell == IF IsUndefinedAt(row, x[3]) THEN <<>> ELSE row[x[3]]
              IN  transitionsNFAForEach(xs, i + 1,
                                        Put(result, x[1], Put(row, x[3], Append(cell, x[2]))),
                                        states, alphabet)

validateTransitionsNFA(d, states, alphabet) ==
    transitionsNFAForEach(d.transitions, 1, EmptyObject, states, alphabet)

(***************************************************************************)
(* class DFA                                                               *)
(***************************************************************************)
\* what the caller holds before new is called
NotConstructed == [built |-> FALSE, error |-> NoError]

\* what the caller holds after new threw: no object, and the Error
Failed(e) == [built |-> FALSE, error |-> e]

\* a constructor that starts the automaton in the first declared state
DFA_assign_FirstDeclared(d, alphabet, states, finalStates, transitions) ==
    [built |-> TRUE,
     alphabet |-> alphabet,
     states |-> states,
     initialState |-> d.initialState,
     finalStates |-> finalStates,
     transitions |-> transitions,
     currentState |-> d.states[1],
     isInErrorState |-> FALSE]

\* the assignments to this.* of the constructor, given what the validators returned
DFA_assign(d, alphabet, states, finalStates, transitions) ==
    [built |-> TRUE,
     alphabet |-> alphabet,
     states |-> states,
     initialState |-> d.initialState,
     finalStates |-> finalStates,
     transitions |-> transitions,
     currentState |-> d.initialState,
     isInErrorState |-> FALSE]

\* a constructor that validates the states before the alphabet
DFA_StatesFirst(d) ==
    LET p == validateDFAProperties(d) IN
    IF p.threw THEN p ELSE
    LET s == validateStates(d) IN
    IF s.threw THEN s ELSE
    LET a == validateAlphabet(d) IN
    IF a.threw THEN a ELSE
    LET i == validateInitialState(d, s.value) IN
    IF i.threw THEN i ELSE
    LET f == validateFinalStates(d, s.value) IN
    IF f.threw THEN f ELSE
    LET t == validateTransitionsDFA(d, s.value, a.value) IN
    IF t.threw THEN t ELSE
    Return(DFA_assign(d, a.value, s.value, f.value, t.value))

\* constructor(dfa): the object, or the Error a validator threw
DFA(d) ==
    LET p == validateDFAProperties(d) IN
    IF p.threw THEN p ELSE
    LET a == validateAlphabet(d) IN
    IF a.threw THEN a ELSE
    LET s == validateStates(d) IN
    IF s.threw THEN s ELSE
    LET i == validateInitialState(d, s.value) IN
    IF i.threw THEN i ELSE
    LET f == validateFinalStates(d, s.value) IN
    IF f.threw THEN f ELSE
    LET t == validateTransitionsDFA(d, s.value, a.value) IN
    IF t.threw THEN t ELSE
    Return(DFA_assign(d, a.value, s.value, f.value, t.value))

DFA_getCurrentState(self) == self.currentState

DFA_isAcceptingState(self) == self.currentState \in self.finalStates

DFA_isErrorState(self) == self.isInErrorState

\* a transition that raises the flag on a missing entry but keeps the state it was in
DFA_transition_KeepsState(self, input) ==
    IF input \notin self.alphabet
    THEN ThrowFrom(self, "symbol is not a valid symbol of the alphabet", <<input>>)
    ELSE IF DFA_isErrorState(self) THEN Return(self)
    ELSE IF IsUndefinedAt(self.transitions, self.currentState)
            \/ IsUndefinedAt(self.transitions[self.currentState], input)
         THEN Return([self EXCEPT !.isInErrorState = TRUE])
    ELSE Return([self EXCEPT !.currentState = self.transitions[self.currentState][input]])

\* a transition that stores the marker on a missing entry but forgets the flag
DFA_transition_NoFlag(self, input) ==
    IF input \notin self.alphabet
    THEN ThrowFrom(self, "symbol is not a valid symbol of the alphabet", <<input>>)
    ELSE IF DFA_isErrorState(self) THEN Return(self)
    ELSE IF IsUndefinedAt(self.transitions, self.currentState)
            \/ IsUndefinedAt(self.transitions[self.currentState], input)
         THEN Return([self EXCEPT !.currentState = ErrorState])
    ELSE Return([self EXCEPT !.currentState = self.transitions[self.currentState][input]])

\* a transition that returns early in the error state before it looks at the symbol
DFA_transition_ErrorFirst(self, input) ==
    IF DFA_isErrorState(self) THEN Return(self)
    ELSE IF input \notin self.alphabet
    THEN ThrowFrom(self, "symbol is not a valid symbol of the alphabet", <<input>>)
    ELSE IF IsUndefinedAt(self.transitions, self.currentState)
            \/ IsUndefinedAt(self.transitions[self.currentState], input)
         THEN Return([self EXCEPT !.currentState = ErrorState, !.isInErrorState = TRUE])
    ELSE Return([self EXCEPT !.currentState = self.transitions[self.currentState][input]])

\* a transition that restarts from the initial state when called in the error state
DFA_transition_Restart(self, input) ==
    IF input \notin self.alphabet
    THEN ThrowFrom(self, "symbol is not a valid symbol of the alphabet", <<input>>)
    ELSE IF DFA_isErrorState(self)
         THEN Return([self EXCEPT !.currentState = self.initialState,
                                  !.isInErrorState = FALSE])
    ELSE IF IsUndefinedAt(self.transitions, self.currentState)
            \/ IsUndefinedAt(self.transitions[self.currentState], input)
         THEN Return([self EXCEPT !.currentState = ErrorState, !.isInErrorState = TRUE])
    ELSE Return([self EXCEPT !.currentState = self.transitions[self.currentState][input]])

\* a transition that throws when the table has no entry for the state and symbol
DFA_transition_ThrowsOnMissing(self, input) ==
    IF input \notin self.alphabet
    THEN ThrowFrom(self, "symbol is not a valid symbol of the alphabet", <<input>>)
    ELSE IF DFA_isErrorState(self) THEN Return(self)
    ELSE IF IsUndefinedAt(self.transitions, self.currentState)
            \/ IsUndefinedAt(self.transitions[self.currentState], input)
         THEN ThrowFrom(self, "no transition for this state and symbol", <<input>>)
    ELSE Return([self EXCEPT !.currentState = self.transitions[self.currentState][input]])

\* a transition that enters the error state before it throws for an unknown symbol
DFA_transition_MarksThenThrows(self, input) ==
    IF input \notin self.alphabet
    THEN ThrowFrom([self EXCEPT !.currentState = ErrorState, !.isInErrorState = TRUE],
                   "symbol is not a valid symbol of the alphabet", <<input>>)
    ELSE IF DFA_isErrorState(self) THEN Return(self)
    ELSE IF IsUndefinedAt(self.transitions, self.currentState)
            \/ IsUndefinedAt(self.transitions[self.currentState], input)
         THEN Return([self EXCEPT !.currentState = ErrorState, !.isInErrorState = TRUE])
    ELSE Return([self EXCEPT !.currentState = self.transitions[self.currentState][input]])

\* transition(input): the object after the call, or the Error thrown
DFA_transition(self, input) ==
    IF input \notin self.alphabet
    THEN ThrowFrom(self, "symbol is not a valid symbol of the alphabet", <<input>>)
    ELSE IF DFA_isErrorState(self) THEN Return(self)
    ELSE IF IsUndefinedAt(self.transitions, self.currentState)
            \/ IsUndefinedAt(self.transitions[self.currentState], input)
         THEN Return([self EXCEPT !.currentState = ErrorState, !.isInErrorState = TRUE])
    ELSE Return([self EXCEPT !.currentState = self.transitions[self.currentState][input]])

(***************************************************************************)
(* class NFA                                                               *)
(***************************************************************************)
\* the assignments to this.* of the constructor, given what the validators returned
NFA_assign(d, alphabet, states, finalStates, transitions) ==
    [built |-> TRUE,
     alphabet |-> alphabet,
     states |-> states,
     initialState |-> d.initialState,
     finalStates |-> finalStates,
     transitions |-> transitions,
     currentStates |-> <<d.initialState>>]

\* constructor(nfa): the object, or the Error a validator threw
NFA(d) ==
    LET p == validateDFAProperties(d) IN
    IF p.threw THEN p ELSE
    LET a == validateAlphabet(d) IN
    IF a.threw THEN a ELSE
    LET s == validateStates(d) IN
    IF s.threw THEN s ELSE
    LET i == validateInitialState(d, s.value) IN
    IF i.threw THEN i ELSE
    LET f == validateFinalStates(d, s.value) IN
    IF f.threw THEN f ELSE
    LET t == validateTransitionsNFA(d, s.value, a.value) IN
    IF t.threw THEN t ELSE
    Return(NFA_assign(d, a.value, s.value, f.value, t.value))

NFA_getCurrentStates(self) == self.currentStates

\* currentStates.reduce((prev, curr) => prev && finalStates.has(curr), true)
RECURSIVE acceptingReduce(_, _, _)
acceptingReduce(self, i, prev) ==
    IF i > Len(self.currentStates) THEN prev
    ELSE acceptingReduce(self, i + 1, prev /\ self.currentStates[i] \in self.finalStates)

NFA_isAcceptingState(self) == acceptingReduce(self, 1, TRUE)

NFA_isErrorState(self) == Len(self.currentStates) = 0

\* the forEach of transition: what each active state pushes onto result
RECURSIVE transitionForEach(_, _, _, _)
transitionForEach(self, input, i, result) ==
    IF i > Len(self.currentStates) THEN result
    ELSE LET x == self.currentStates[i] IN
         IF IsUndefinedAt(self.transitions, x) \/ IsUndefinedAt(self.transitions[x], input)
         THEN transitionForEach(self, input, i + 1, Append(result, ErrorState))
         ELSE transitionForEach(self, input, i + 1, result \o self.transitions[x][input])

\* a transition that leaves the ErrorState instances in the active collection
NFA_transition_NoFilter(self, input) ==
    IF input \notin self.alphabet
    THEN ThrowFrom(self, "symbol is not a valid symbol of the alphabet", <<input>>)
    ELSE IF NFA_isErrorState(self) THEN Return(self)
    ELSE Return([self EXCEPT !.currentStates = transitionForEach(self, input, 1, <<>>)])

\* a transition that restarts from the initial state when the active collection is empty
NFA_transition_Restart(self, input) ==
    IF input \notin self.alphabet
    THEN ThrowFrom(self, "symbol is not a valid symbol of the alphabet", <<input>>)
    ELSE IF NFA_isErrorState(self)
         THEN Return([self EXCEPT !.currentStates = <<self.initialState>>])
    ELSE LET result == transitionForEach(self, input, 1, <<>>) IN
         Return([self EXCEPT !.currentStates =
                     SelectSeq(result, LAMBDA x : ~InstanceOfErrorState(x))])

\* a transition whose result array is the table's own array for the first active
\* state, so that the pushes of the forEach land in the table
NFA_transition_PushIntoTable(self, input) ==
    IF input \notin self.alphabet
    THEN ThrowFrom(self, "symbol is not a valid symbol of the alphabet", <<input>>)
    ELSE IF NFA_isErrorState(self) THEN Return(self)
    ELSE LET result == transitionForEach(self, input, 1, <<>>)
             first == self.currentStates[1]
             aliased == ~IsUndefinedAt(self.transitions, first)
                        /\ ~IsUndefinedAt(self.transitions[first], input)
         IN  Return([self EXCEPT
                 !.currentStates = SelectSeq(result, LAMBDA x : ~InstanceOfErrorState(x)),
                 !.transitions = IF aliased
                                 THEN Put(self.transitions, first,
                                          Put(self.transitions[first], input, result))
                                 ELSE self.transitions])

\* transition(input): the object after the call, or the Error thrown
NFA_transition(self, input) ==
    IF input \notin self.alphabet
    THEN ThrowFrom(self, "symbol is not a valid symbol of the alphabet", <<input>>)
    ELSE IF NFA_isErrorState(self) THEN Return(self)
    ELSE LET result == transitionForEach(self, input, 1, <<>>) IN
         Return([self EXCEPT !.currentStates =
                     SelectSeq(result, LAMBDA x : ~InstanceOfErrorState(x))])

(***************************************************************************)
(* The callers: the spec objects handed to the constructors and the        *)
(* symbols handed to transition.                                           *)
(***************************************************************************)
SeqsUpTo(S, n) == UNION {[1..k -> S] : k \in 0..n}

\* specs of the README's shape over two symbols and two states
WellFormedSpecs ==
    {[alphabet |-> <<"a", "b">>, states |-> <<"s1", "s2">>, initialState |-> i,
      finalStates |-> f, transitions |-> t] :
        i \in {"s1", "s2"},
        f \in {<<>>, <<"s1">>, <<"s2">>, <<"s1", "s2">>},
        t \in SeqsUpTo({"s1", "s2"} \X {"s1", "s2"} \X {"a", "b"}, MaxTrans)}

\* specs with a defect in any of the five properties
DefectiveSpecs ==
    {[alphabet |-> al, states |-> st, initialState |-> i,
      finalStates |-> f, transitions |-> t] :
        al \in {<<"a", "b">>, <<"a", "a">>, <<"a", " ">>, <<Num7, "a">>},
        st \in {<<"s1", "s2">>, <<"s1", "s1">>, <<" ", "s1">>, <<"s1", Num7>>},
        i \in {"s1", "s3", " ", Num7, ""},
        f \in {<<"s2">>, <<"s2", "s2">>, <<"s3">>, <<Num7>>},
        t \in {<< <<"s1", "s2", "a">> >>, << <<"s1", "s2">> >>, << <<"s1", Num7, "a">> >>,
               << <<"s3", "s1", "a">> >>, << <<"s1", "s3", "a">> >>,
               << <<"s1", "s2", "c">> >>,
               << <<"s3", "s1", "a">>, <<"s1", "s2", "c">> >>,
               << <<"s1", "s2", "a">>, <<"s1", "s1", "a">>, <<"s1", "s2">> >>}}

\* delete d.f
Without(d, f) == [k \in (DOMAIN d) \ {f} |-> d[k]]

\* specs that lack one or two properties, and no spec at all
IncompleteSpecs ==
    {NoSpec} \cup
    {Without(Without(d, f), g) :
        d \in {[alphabet |-> <<"a", "b">>, states |-> <<"s1", "s2">>, initialState |-> "s1",
                finalStates |-> <<"s2">>, transitions |-> << <<"s1", "s2", "a">> >>]},
        f \in {"alphabet", "states", "initialState", "finalStates", "transitions"},
        g \in {"alphabet", "states", "initialState", "finalStates", "transitions"}}

\* the two three-state automata of the README's shape: a chain and a fork
ScenarioSpecs ==
    {[alphabet |-> <<"a", "b">>, states |-> <<"s1", "s2", "s3">>, initialState |-> "s1",
      finalStates |-> <<"s3">>, transitions |-> t] :
        t \in {<< <<"s1", "s2", "a">>, <<"s2", "s3", "b">> >>,
               << <<"s1", "s2", "a">>, <<"s1", "s3", "a">> >>}}

SpecInputs == WellFormedSpecs \cup DefectiveSpecs \cup IncompleteSpecs \cup ScenarioSpecs

\* symbols handed to transition: declared ones, an undeclared one, a non-string
Inputs == {"a", "b", "c", Num7}

(***************************************************************************)
(* The objects the caller holds.  A method call reads and assigns the      *)
(* fields of its receiver, this.                                           *)
(***************************************************************************)
\* the automata alive: two of each class, all built from the one spec object
Heap == [dfa |-> dfa, nfa |-> nfa, dfa2 |-> twin.dfa, nfa2 |-> twin.nfa]

\* runtime fields kept in variables of the module instead of fields of this: a
\* call on one automaton assigns them for every automaton of its class
AssignThis_ModuleLevel(heap, this, self) ==
    [o \in DOMAIN heap |->
        IF o = this THEN self
        ELSE IF ~heap[o].built THEN heap[o]
        ELSE IF "currentState" \in DOMAIN self /\ "currentState" \in DOMAIN heap[o]
             THEN [heap[o] EXCEPT !.currentState = self.currentState,
                                  !.isInErrorState = self.isInErrorState]
        ELSE IF "currentStates" \in DOMAIN self /\ "currentStates" \in DOMAIN heap[o]
             THEN [heap[o] EXCEPT !.currentStates = self.currentStates]
        ELSE heap[o]]

\* this.currentState = ..., this.isInErrorState = ..., this.currentStates = ... :
\* the assignments of a method land in the fields of its receiver
AssignThis(heap, this, self) == [heap EXCEPT ![this] = self]

(***************************************************************************)
(* The state machine.                                                      *)
(***************************************************************************)
NoCall == [op |-> "none", arg |-> "", error |-> NoError]

Init ==
    /\ spec \in SpecInputs
    /\ dfa = NotConstructed
    /\ nfa = NotConstructed
    /\ twin = [dfa |-> NotConstructed, nfa |-> NotConstructed]
    /\ call = NoCall

\* new DFA(spec)
NewDFA ==
    /\ dfa = NotConstructed
    /\ LET r == DFA(spec) IN
       /\ dfa' = IF r.threw THEN Failed(r.error) ELSE r.value
       /\ call' = [op |-> "new DFA", arg |-> "", error |-> r.error]
    /\ UNCHANGED <<spec, nfa, twin>>

\* new NFA(spec)
NewNFA ==
    /\ nfa = NotConstructed
    /\ LET r == NFA(spec) IN
       /\ nfa' = IF r.threw THEN Failed(r.error) ELSE r.value
       /\ call' = [op |-> "new NFA", arg |-> "", error |-> r.error]
    /\ UNCHANGED <<spec, dfa, twin>>

\* the heap after a call, read back into the variables
HeapBecomes(h) ==
    /\ dfa' = h.dfa
    /\ nfa' = h.nfa
    /\ twin' = [dfa |-> h.dfa2, nfa |-> h.nfa2]

\* dfa.transition(input)
DFATransition(input) ==
    /\ dfa.built
    /\ LET r == DFA_transition(dfa, input) IN
       /\ HeapBecomes(AssignThis(Heap, "dfa", r.value))
       /\ call' = [op |-> "DFA.transition", arg |-> input, error |-> r.error]
    /\ UNCHANGED spec

\* nfa.transition(input)
NFATransition(input) ==
    /\ nfa.built
    /\ LET r == NFA_transition(nfa, input) IN
       /\ Len(r.value.currentStates) <= MaxActive
       /\ HeapBecomes(AssignThis(Heap, "nfa", r.value))
       /\ call' = [op |-> "NFA.transition", arg |-> input, error |-> r.error]
    /\ UNCHANGED spec

\* the names of the query methods
DFAQueries == {"DFA.getCurrentState", "DFA.isAcceptingState", "DFA.isErrorState"}

NFAQueries == {"NFA.getCurrentStates", "NFA.isAcceptingState", "NFA.isErrorState"}

\* what a query method of the DFA returns
DFA_query(self, q) ==
    IF q = "DFA.getCurrentState" THEN <<DFA_getCurrentState(self)>>
    ELSE IF q = "DFA.isAcceptingState" THEN <<DFA_isAcceptingState(self)>>
    ELSE <<DFA_isErrorState(self)>>

\* what a query method of the NFA returns
NFA_query(self, q) ==
    IF q = "NFA.getCurrentStates" THEN <<NFA_getCurrentStates(self)>>
    ELSE IF q = "NFA.isAcceptingState" THEN <<NFA_isAcceptingState(self)>>
    ELSE <<NFA_isErrorState(self)>>

\* dfa.getCurrentState(), dfa.isAcceptingState(), dfa.isErrorState()
DFAQuery(q) ==
    /\ dfa.built
    /\ call' = [op |-> q, arg |-> "", error |-> NoError, returned |-> DFA_query(dfa, q)]
    /\ UNCHANGED <<spec, dfa, nfa, twin>>

\* nfa.getCurrentStates(), nfa.isAcceptingState(), nfa.isErrorState()
NFAQuery(q) ==
    /\ nfa.built
    /\ call' = [op |-> q, arg |-> "", error |-> NoError, returned |-> NFA_query(nfa, q)]
    /\ UNCHANGED <<spec, dfa, nfa, twin>>

Next ==
    \/ NewDFA
    \/ NewNFA
    \/ \E input \in Inputs : DFATransition(input)
    \/ \E input \in Inputs : NFATransition(input)
    \/ \E q \in DFAQueries : DFAQuery(q)
    \/ \E q \in NFAQueries : NFAQuery(q)

Spec == Init /\ [][Next]_vars

(***************************************************************************)
(* A caller that builds two automata of each class from the same spec      *)
(* object and drives all four.                                             *)
(***************************************************************************)
\* the specs handed to that caller: the two scenarios, and the specs with at most
\* one transition, initial state s1 and final state s2
TwinSpecs ==
    ScenarioSpecs \cup
    {d \in WellFormedSpecs :
        d.initialState = "s1" /\ d.finalStates = <<"s2">> /\ Len(d.transitions) <= 1}

InitTwin == Init /\ spec \in TwinSpecs

\* a second new DFA(spec)
NewTwinDFA ==
    /\ twin.dfa = NotConstructed
    /\ LET r == DFA(spec) IN
       /\ twin' = [twin EXCEPT !.dfa = IF r.threw THEN Failed(r.error) ELSE r.value]
       /\ call' = [op |-> "twin new DFA", arg |-> "", error |-> r.error]
    /\ UNCHANGED <<spec, dfa, nfa>>

\* a second new NFA(spec)
NewTwinNFA ==
    /\ twin.nfa = NotConstructed
    /\ LET r == NFA(spec) IN
       /\ twin' = [twin EXCEPT !.nfa = IF r.threw THEN Failed(r.error) ELSE r.value]
       /\ call' = [op |-> "twin new NFA", arg |-> "", error |-> r.error]
    /\ UNCHANGED <<spec, dfa, nfa>>

\* transition(input) on the second DFA
TwinDFATransition(input) ==
    /\ twin.dfa.built
    /\ LET r == DFA_transition(twin.dfa, input) IN
       /\ HeapBecomes(AssignThis(Heap, "dfa2", r.value))
       /\ call' = [op |-> "twin DFA.transition", arg |-> input, error |-> r.error]
    /\ UNCHANGED spec

\* transition(input) on the second NFA
TwinNFATransition(input) ==
    /\ twin.nfa.built
    /\ LET r == NFA_transition(twin.nfa, input) IN
       /\ Len(r.value.currentStates) <= MaxActive
       /\ HeapBecomes(AssignThis(Heap, "nfa2", r.value))
       /\ call' = [op |-> "twin NFA.transition", arg |-> input, error |-> r.error]
    /\ UNCHANGED spec

NextTwin ==
    \/ NewDFA
    \/ NewNFA
    \/ NewTwinDFA
    \/ NewTwinNFA
    \/ \E input \in Inputs : DFATransition(input)
    \/ \E input \in Inputs : NFATransition(input)
    \/ \E input \in Inputs : TwinDFATransition(input)
    \/ \E input \in Inputs : TwinNFATransition(input)

SpecTwin == InitTwin /\ [][NextTwin]_vars

(***************************************************************************)
(* A caller that builds a DFA and an NFA from the same spec object and     *)
(* feeds every input first to the DFA, then to the NFA.                    *)
(***************************************************************************)
\* dfa.transition(input), once the NFA has caught up with the DFA
FeedDFA(input) ==
    /\ dfa.built
    /\ nfa.built
    /\ call.op # "DFA.transition"
    /\ DFATransition(input)

\* nfa.transition(input) with the input the DFA has just been given
FeedNFA ==
    /\ dfa.built
    /\ nfa.built
    /\ call.op = "DFA.transition"
    /\ NFATransition(call.arg)

NextLockstep ==
    \/ NewDFA
    \/ NewNFA
    \/ \E input \in Inputs : FeedDFA(input)
    \/ FeedNFA

SpecLockstep == Init /\ [][NextLockstep]_vars

(***************************************************************************)
(* What the claims speak of, read off the spec object and the tables.      *)
(***************************************************************************)
\* the elements of an array
Range(xs) == {xs[k] : k \in 1..Len(xs)}

\* the targets a DFA table holds for (s, symbol): none or one
DfaTargets(self, s, symbol) ==
    {t \in self.states :
        /\ s \in DOMAIN self.transitions
        /\ symbol \in DOMAIN self.transitions[s]
        /\ self.transitions[s][symbol] = t}

\* the targets an NFA table holds for (s, symbol)
NfaTargets(self, s, symbol) ==
    IF s \in DOMAIN self.transitions /\ symbol \in DOMAIN self.transitions[s]
    THEN Range(self.transitions[s][symbol])
    ELSE {}

\* an array without a repeated element
Distinct(xs) == Cardinality(Range(xs)) = Len(xs)

\* a string that is not blank
IsName(x) == TypeOf(x) = "string" /\ x \notin {"", " ", "  "}

\* the spec object has the shape and the consistency that the data model asks of it
SpecWellFormed(d) ==
    /\ {"alphabet", "states", "initialState", "finalStates", "transitions"} \subseteq DOMAIN d
    /\ Distinct(d.alphabet) /\ \A x \in Range(d.alphabet) : IsName(x)
    /\ Distinct(d.states) /\ \A x \in Range(d.states) : IsName(x)
    /\ d.initialState \in Range(d.states)
    /\ Distinct(d.finalStates) /\ Range(d.finalStates) \subseteq Range(d.states)
    /\ \A t \in Range(d.transitions) :
          /\ Len(t) = 3
          /\ t[1] \in Range(d.states)
          /\ t[2] \in Range(d.states)
          /\ t[3] \in Range(d.alphabet)

\* the pairs of tuples of a well-formed spec with the same (from, symbol) and
\* different to states, earlier tuple first
Conflicts(d) ==
    {p \in (1..Len(d.transitions)) \X (1..Len(d.transitions)) :
        /\ p[1] < p[2]
        /\ d.transitions[p[1]][1] = d.transitions[p[2]][1]
        /\ d.transitions[p[1]][3] = d.transitions[p[2]][3]
        /\ d.transitions[p[1]][2] # d.transitions[p[2]][2]}

\* the last call was a transition of the DFA (of the NFA) that returned normally
DfaMoved == call.op = "DFA.transition" /\ call.error = NoError

NfaMoved == call.op = "NFA.transition" /\ call.error = NoError

(***************************************************************************)
(* C1: for every spec that passes validation, right after construction and *)
(* before any transition call, DFA getCurrentState() is the spec's         *)
(* initialState, NFA getCurrentStates() holds exactly the one element      *)
(* initialState, and isErrorState() is false for both.                     *)
(***************************************************************************)
C1_FreshAutomatonAtInitialState ==
    /\ (call.op = "new DFA" /\ dfa.built) =>
          /\ DFA_getCurrentState(dfa) = spec.initialState
          /\ ~DFA_isErrorState(dfa)
    /\ (call.op = "new NFA" /\ nfa.built) =>
          /\ NFA_getCurrentStates(nfa) = <<spec.initialState>>
          /\ ~NFA_isErrorState(nfa)

\* a DFA just built, beside a built NFA, from a spec whose initial state is not the
\* first declared one
C1_Witness ==
    /\ call.op = "new DFA"
    /\ dfa.built
    /\ nfa.built
    /\ spec.initialState = "s2"

(***************************************************************************)
(* C2: DFA transition(symbol) with a symbol of the alphabet, called while  *)
(* not in the error state: if the table has no entry for (currentState,    *)
(* symbol) the automaton moves to the error state (isErrorState() true,    *)
(* getCurrentState() the error marker); otherwise the current state        *)
(* becomes the table's target and isErrorState() stays false.              *)
(***************************************************************************)
C2_DfaStepFollowsTable ==
    [][(/\ dfa.built
        /\ call'.op = "DFA.transition"
        /\ call'.arg \in dfa.alphabet
        /\ ~DFA_isErrorState(dfa))
       => IF DfaTargets(dfa, DFA_getCurrentState(dfa), call'.arg) = {}
          THEN /\ DFA_isErrorState(dfa')
               /\ DFA_getCurrentState(dfa') = ErrorState
          ELSE /\ DFA_getCurrentState(dfa')
                     \in DfaTargets(dfa, DFA_getCurrentState(dfa), call'.arg)
               /\ ~DFA_isErrorState(dfa')]_vars

\* a DFA that has followed a table entry away from its initial state
C2_Witness ==
    /\ DfaMoved
    /\ ~DFA_isErrorState(dfa)
    /\ DFA_getCurrentState(dfa) # dfa.initialState

(***************************************************************************)
(* C3: NFA transition(symbol) with a symbol of the alphabet, called while  *)
(* the active set is non-empty: the set of states of the new active        *)
(* collection is the union, over every active state s, of the table's      *)
(* targets for (s, symbol); a state without an entry contributes nothing,  *)
(* and the automaton is dead only when that union is empty.                *)
(***************************************************************************)
C3_NfaStepIsUnionOfTargets ==
    [][(/\ nfa.built
        /\ call'.op = "NFA.transition"
        /\ call'.arg \in nfa.alphabet
        /\ ~NFA_isErrorState(nfa))
       => LET union == UNION {NfaTargets(nfa, s, call'.arg) :
                                 s \in Range(NFA_getCurrentStates(nfa))}
          IN  /\ Range(NFA_getCurrentStates(nfa')) = union
              /\ NFA_isErrorState(nfa') <=> union = {}]_vars

\* an NFA whose last transition left two different states active
C3_Witness ==
    /\ NfaMoved
    /\ Cardinality(Range(NFA_getCurrentStates(nfa))) = 2

(***************************************************************************)
(* C4: for every constructed DFA or NFA, in every reachable runtime state  *)
(* (the DFA error state and the empty NFA active set included),            *)
(* transition(symbol) with a symbol that is not in the alphabet fails with *)
(* an error.                                                               *)
(***************************************************************************)
C4_UnknownSymbolAlwaysThrows ==
    /\ dfa.built =>
          \A input \in Inputs \ Range(spec.alphabet) : DFA_transition(dfa, input).threw
    /\ nfa.built =>
          \A input \in Inputs \ Range(spec.alphabet) : NFA_transition(nfa, input).threw

\* a DFA in the error state and a dead NFA, the last call having thrown
C4_Witness ==
    /\ dfa.built
    /\ nfa.built
    /\ DFA_isErrorState(dfa)
    /\ NFA_isErrorState(nfa)
    /\ call.op \in {"DFA.transition", "NFA.transition"}
    /\ call.error # NoError

(***************************************************************************)
(* C5: the DFA error state is absorbing: once isErrorState() is true it    *)
(* stays true, and getCurrentState() keeps returning the error marker,     *)
(* after any further transition calls with symbols of the alphabet.        *)
(***************************************************************************)
C5_DfaErrorAbsorbing ==
    [][(dfa.built /\ DFA_isErrorState(dfa))
       => /\ DFA_isErrorState(dfa')
          /\ DFA_getCurrentState(dfa') = ErrorState]_vars

\* a DFA in the error state whose last call, transition('a'), returned normally,
\* under a table that has an entry for 'a' from every declared state: the call
\* found the automaton already in the error state
C5_Witness ==
    /\ DfaMoved
    /\ call.arg = "a"
    /\ DFA_isErrorState(dfa)
    /\ \A s \in dfa.states : DfaTargets(dfa, s, "a") # {}

(***************************************************************************)
(* C6: the dead NFA configuration is absorbing: once the active set is     *)
(* empty it stays empty after any further transition calls with symbols of *)
(* the alphabet.                                                           *)
(***************************************************************************)
C6_NfaDeadAbsorbing ==
    [][(nfa.built /\ NFA_getCurrentStates(nfa) = <<>>)
       => NFA_getCurrentStates(nfa') = <<>>]_vars

\* a dead NFA whose last call, transition('a'), returned normally, under a table
\* that has targets for 'a' from every declared state: the call found it dead
C6_Witness ==
    /\ NfaMoved
    /\ call.arg = "a"
    /\ NFA_getCurrentStates(nfa) = <<>>
    /\ \A s \in nfa.states : NfaTargets(nfa, s, "a") # {}

(***************************************************************************)
(* C7: in every reachable state of a DFA, isAcceptingState() is true if    *)
(* and only if the automaton is not in the error state and its current     *)
(* state is one of the spec's finalStates; in particular it is false       *)
(* whenever isErrorState() is true.                                        *)
(***************************************************************************)
C7_DfaAcceptingIffActiveFinal ==
    dfa.built =>
        /\ DFA_isAcceptingState(dfa) <=>
              (~DFA_isErrorState(dfa) /\ DFA_getCurrentState(dfa) \in Range(spec.finalStates))
        /\ DFA_isErrorState(dfa) => ~DFA_isAcceptingState(dfa)

\* a DFA in the error state although every declared state is final
C7_Witness ==
    /\ dfa.built
    /\ DFA_isErrorState(dfa)
    /\ Range(spec.finalStates) = Range(spec.states)

(***************************************************************************)
(* C8: in every reachable state of an NFA, isAcceptingState() is true if   *)
(* and only if at least one of the active states is one of the spec's      *)
(* finalStates (false for the empty active set, true for a mix of final    *)
(* and non-final states).                                                  *)
(***************************************************************************)
C8_NfaAcceptingIffSomeActiveFinal ==
    nfa.built =>
        (NFA_isAcceptingState(nfa) <=>
            \E s \in Range(NFA_getCurrentStates(nfa)) : s \in Range(spec.finalStates))

(***************************************************************************)
(* C9: after any sequence of NFA transition calls the collection returned  *)
(* by getCurrentStates() holds no state more than once, so its size never  *)
(* exceeds the number of declared states.                                  *)
(***************************************************************************)
C9_NfaActiveHasNoDuplicates ==
    nfa.built =>
        /\ Distinct(NFA_getCurrentStates(nfa))
        /\ Len(NFA_getCurrentStates(nfa)) <= Cardinality(nfa.states)

(***************************************************************************)
(* C10: for a spec whose transitions hold two tuples with the same (from,  *)
(* symbol) and different to states, DFA construction fails, NFA            *)
(* construction succeeds and, when from is active, one transition on       *)
(* symbol leaves both to states in the active set.                         *)
(***************************************************************************)
C10_ConflictRejectedByDfaFollowedByNfa ==
    /\ []((SpecWellFormed(spec) /\ Conflicts(spec) # {})
          => /\ dfa # NotConstructed => ~dfa.built
             /\ nfa # NotConstructed => nfa.built)
    /\ [][(nfa.built /\ call'.op = "NFA.transition")
          => \A p \in Conflicts(spec) :
                (/\ call'.arg = spec.transitions[p[1]][3]
                 /\ spec.transitions[p[1]][1] \in Range(NFA_getCurrentStates(nfa)))
                => {spec.transitions[p[1]][2], spec.transitions[p[2]][2]}
                      \subseteq Range(NFA_getCurrentStates(nfa'))]_vars

\* the DFA constructor has thrown, the NFA was built and its last transition, on
\* the symbol of a conflicting pair, left both to states active
C10_Witness ==
    /\ SpecWellFormed(spec)
    /\ dfa # NotConstructed
    /\ ~dfa.built
    /\ nfa.built
    /\ NfaMoved
    /\ \E p \in Conflicts(spec) :
          /\ call.arg = spec.transitions[p[1]][3]
          /\ {spec.transitions[p[1]][2], spec.transitions[p[2]][2]}
                \subseteq Range(NFA_getCurrentStates(nfa))

(***************************************************************************)
(* C11: two automata (DFA or NFA) constructed from the same spec object    *)
(* share no mutable state: a call on one (a transition, or the             *)
(* construction of another automaton) leaves every other automaton's       *)
(* current state(s), error status, acceptance status and transition table  *)
(* unchanged.                                                              *)
(***************************************************************************)
\* the automaton a call is made on
Receiver(c) ==
    IF c.op = "DFA.transition" THEN "dfa"
    ELSE IF c.op = "NFA.transition" THEN "nfa"
    ELSE IF c.op = "twin DFA.transition" THEN "dfa2"
    ELSE IF c.op = "twin NFA.transition" THEN "nfa2"
    ELSE "none"

\* what a caller can observe of an automaton
Observe(self) ==
    IF "currentState" \in DOMAIN self
    THEN [current |-> <<DFA_getCurrentState(self)>>,
          error |-> DFA_isErrorState(self),
          accepting |-> DFA_isAcceptingState(self),
          transitions |-> self.transitions]
    ELSE [current |-> NFA_getCurrentStates(self),
          error |-> NFA_isErrorState(self),
          accepting |-> NFA_isAcceptingState(self),
          transitions |-> self.transitions]

C11_AutomataAreIndependent ==
    [][\A o \in DOMAIN Heap :
          (Heap[o].built /\ Receiver(call') # o)
          => /\ Heap'[o].built
             /\ Observe(Heap'[o]) = Observe(Heap[o])]_vars

\* two DFAs and two NFAs built from the one spec object, the last call a transition,
\* and neither pair in the same runtime state
C11_Witness ==
    /\ dfa.built /\ twin.dfa.built /\ nfa.built /\ twin.nfa.built
    /\ Receiver(call) # "none"
    /\ DFA_getCurrentState(dfa) # DFA_getCurrentState(twin.dfa)
    /\ NFA_getCurrentStates(nfa) # NFA_getCurrentStates(twin.nfa)

(***************************************************************************)
(* C12: when a spec violates more than one check, construction fails with  *)
(* the error of the first failing check in this order: presence of the     *)
(* spec and of alphabet, states, initialState, finalStates, transitions;   *)
(* then alphabet entries; then state entries; then the initial state; then *)
(* final states; then the transition tuples in declaration order, the      *)
(* earliest offending tuple being the one reported.                        *)
(***************************************************************************)
\* the properties in the order their presence is checked
PropertyOrder == <<"alphabet", "states", "initialState", "finalStates", "transitions">>

\* the properties a spec object lacks (an empty initialState counts as lacking)
Lacking(d) ==
    {k \in 1..5 : PropertyOrder[k] \notin DOMAIN d
                  \/ (PropertyOrder[k] = "initialState" /\ d.initialState = "")}

\* an array of names has an entry that is no string, is blank or is repeated
NamesDefect(xs) == ~(Distinct(xs) /\ \A x \in Range(xs) : IsName(x))

InitialDefect(d) == ~(IsName(d.initialState) /\ d.initialState \in Range(d.states))

FinalDefect(d) ==
    ~(/\ Distinct(d.finalStates)
      /\ \A x \in Range(d.finalStates) : TypeOf(x) = "string" /\ x \in Range(d.states))

\* tuple k is no triple of strings over the declared states and symbols or, for a
\* DFA, repeats the (from, symbol) of an earlier triple
Offending(d, k, deterministic) ==
    LET t == d.transitions[k] IN
    \/ Len(t) # 3
    \/ \E n \in 1..3 : TypeOf(t[n]) # "string"
    \/ t[1] \notin Range(d.states)
    \/ t[2] \notin Range(d.states)
    \/ t[3] \notin Range(d.alphabet)
    \/ /\ deterministic
       /\ \E j \in 1..(k - 1) :
             /\ Len(d.transitions[j]) = 3
             /\ d.transitions[j][1] = t[1]
             /\ d.transitions[j][3] = t[3]

OffendingTuples(d, deterministic) ==
    {k \in 1..Len(d.transitions) : Offending(d, k, deterministic)}

Earliest(S) == CHOOSE k \in S : \A j \in S : k <= j

\* the check that fails first, in the order of the claim
FirstFailingCheck(d, deterministic) ==
    IF d = NoSpec THEN <<"presence", "spec">>
    ELSE IF Lacking(d) # {} THEN <<"presence", PropertyOrder[Earliest(Lacking(d))]>>
    ELSE IF NamesDefect(d.alphabet) THEN <<"alphabet">>
    ELSE IF NamesDefect(d.states) THEN <<"states">>
    ELSE IF InitialDefect(d) THEN <<"initialState">>
    ELSE IF FinalDefect(d) THEN <<"finalStates">>
    ELSE IF OffendingTuples(d, deterministic) # {} THEN <<"transitions">>
    ELSE <<"none">>

\* the check an Error message belongs to
CheckOf(msg) ==
    IF msg = "dfa object not defined in constructor." THEN <<"presence", "spec">>
    ELSE IF msg = "dfa alphabet property not defined." THEN <<"presence", "alphabet">>
    ELSE IF msg = "dfa states property not defined." THEN <<"presence", "states">>
    ELSE IF msg = "dfa initialState property not defined."
         THEN <<"presence", "initialState">>
    ELSE IF msg = "dfa finalStates property not defined." THEN <<"presence", "finalStates">>
    ELSE IF msg = "dfa transitions property not defined" THEN <<"presence", "transitions">>
    ELSE IF msg \in {"symbol in alphabet must be a string", "duplicate symbol in alphabet",
                     "symbol in alphabet must not be solely whitespace."}
         THEN <<"alphabet">>
    ELSE IF msg \in {"symbol in states must be a string", "duplicate symbol in states",
                     "symbol in states must not be solely whitespace."}
         THEN <<"states">>
    ELSE IF msg \in {"initialState must be a string", "initialState is not a valid state.",
                     "initialState must not be solely whitespace."}
         THEN <<"initialState">>
    ELSE IF msg \in {"symbol in finalStates must be a string",
                     "duplicate symbol in finalStates",
                     "symbol for finalStates is not a defined state."}
         THEN <<"finalStates">>
    ELSE IF msg \in {"transition must be a 3-tuple of strings",
                     "transition must be a 3-tuple of strings, element",
                     "first symbol of transition must be a valid state",
                     "second symbol of transition must be a valid state",
                     "third symbol of transition must be a valid symbol in the alphabet",
                     "this transition results in non-deterministic behavior"}
         THEN <<"transitions">>
    ELSE <<"none">>

\* the Error names tuple t: it carries the tuple, or one element of it
Reports(error, t) ==
    \/ error.value = t
    \/ Len(error.value) = 1 /\ error.value[1] \in Range(t)

\* the outcome of a constructor call is the one the order of the checks gives
FailsAtFirstCheck(self, d, deterministic) ==
    LET first == FirstFailingCheck(d, deterministic) IN
    IF first = <<"none">> THEN self.built
    ELSE /\ ~self.built
         /\ CheckOf(self.error.msg) = first
         /\ first = <<"transitions">> =>
               Reports(self.error, d.transitions[Earliest(OffendingTuples(d, deterministic))])

C12_FirstFailingCheckIsReported ==
    /\ dfa # NotConstructed => FailsAtFirstCheck(dfa, spec, TRUE)
    /\ nfa # NotConstructed => FailsAtFirstCheck(nfa, spec, FALSE)

\* both constructors have thrown on a spec whose alphabet, states, initial state and
\* final states are all defective
C12_Witness ==
    /\ dfa # NotConstructed /\ ~dfa.built
    /\ nfa # NotConstructed /\ ~nfa.built
    /\ spec # NoSpec /\ Lacking(spec) = {}
    /\ NamesDefect(spec.alphabet)
    /\ NamesDefect(spec.states)
    /\ InitialDefect(spec)
    /\ FinalDefect(spec)

(***************************************************************************)
(* C13: every automaton whose construction succeeds satisfies, for its     *)
(* whole lifetime: initialState is a member of states; finalStates is a    *)
(* duplicate-free subset of states; every table entry's from and to states *)
(* are members of states and its symbol is a member of the alphabet; and a *)
(* DFA table maps each (from, symbol) pair to at most one target.          *)
(***************************************************************************)
\* the to states the spec's tuples give for (from, symbol)
DeclaredTargets(d, from, symbol) ==
    {t[2] : t \in {u \in Range(d.transitions) : u[1] = from /\ u[3] = symbol}}

\* the data-model invariants that both classes share; targets(from, symbol) is the
\* set of to states the table holds
DataModelHolds(self, d, targets(_, _)) ==
    /\ self.states = Range(d.states)
    /\ self.alphabet = Range(d.alphabet)
    /\ self.initialState \in self.states
    /\ Distinct(d.finalStates)
    /\ self.finalStates = Range(d.finalStates)
    /\ self.finalStates \subseteq self.states
    /\ DOMAIN self.transitions \subseteq self.states
    /\ \A from \in DOMAIN self.transitions :
          /\ DOMAIN self.transitions[from] \subseteq self.alphabet
          /\ \A symbol \in DOMAIN self.transitions[from] :
                targets(from, symbol) \subseteq self.states

C13_DataModelInvariants ==
    /\ dfa.built =>
          /\ DataModelHolds(dfa, spec, LAMBDA from, symbol : DfaTargets(dfa, from, symbol))
          /\ \A from \in dfa.states, symbol \in dfa.alphabet :
                /\ Cardinality(DeclaredTargets(spec, from, symbol)) <= 1
                /\ DfaTargets(dfa, from, symbol) = DeclaredTargets(spec, from, symbol)
    /\ nfa.built =>
          /\ DataModelHolds(nfa, spec, LAMBDA from, symbol : NfaTargets(nfa, from, symbol))
          /\ \A from \in nfa.states, symbol \in nfa.alphabet :
                NfaTargets(nfa, from, symbol) = DeclaredTargets(spec, from, symbol)

\* a DFA and an NFA built from a spec with transitions and final states, after a
\* transition of each has returned: the DFA is in the error state, the NFA is dead
C13_Witness ==
    /\ dfa.built
    /\ nfa.built
    /\ spec.transitions # <<>>
    /\ spec.finalStates # <<>>
    /\ DFA_isErrorState(dfa)
    /\ NFA_isErrorState(nfa)

(***************************************************************************)
(* C14: in every reachable state of a DFA the error flag mirrors the       *)
(* current state: isErrorState() is true if and only if getCurrentState()  *)
(* is the error marker, and whenever isErrorState() is false               *)
(* getCurrentState() is a member of the declared state set.                *)
(***************************************************************************)
C14_DfaFlagMirrorsState ==
    dfa.built =>
        /\ DFA_isErrorState(dfa) <=> InstanceOfErrorState(DFA_getCurrentState(dfa))
        /\ ~DFA_isErrorState(dfa) => DFA_getCurrentState(dfa) \in Range(spec.states)

\* isErrorState() has just been asked of a DFA in the error state
C14_Witness ==
    /\ dfa.built
    /\ call.op = "DFA.isErrorState"
    /\ call.returned = <<TRUE>>

(***************************************************************************)
(* C15: in every reachable state of an NFA every element of                *)
(* getCurrentStates() is a member of the declared state set (no error      *)
(* marker ever appears in it), and isErrorState() is true if and only if   *)
(* that collection is empty.                                               *)
(***************************************************************************)
C15_NfaActiveAreDeclaredStates ==
    nfa.built =>
        /\ \A x \in Range(NFA_getCurrentStates(nfa)) :
              ~InstanceOfErrorState(x) /\ x \in Range(spec.states)
        /\ NFA_isErrorState(nfa) <=> NFA_getCurrentStates(nfa) = <<>>

\* an NFA still alive after a transition on a symbol for which one of its declared
\* states has no table entry
C15_Witness ==
    /\ nfa.built
    /\ NfaMoved
    /\ NFA_getCurrentStates(nfa) # <<>>
    /\ \E s \in nfa.states : NfaTargets(nfa, s, call.arg) = {}

(***************************************************************************)
(* C16: no transition or query call on a DFA or NFA changes the alphabet,  *)
(* the state set, the initial state, the final-state set or the transition *)
(* table fixed at construction; transition changes only the runtime state, *)
(* and getCurrentState(s), isAcceptingState and isErrorState change        *)
(* nothing.                                                                *)
(***************************************************************************)
\* what construction fixes
Fixed(self) ==
    [alphabet |-> self.alphabet,
     states |-> self.states,
     initialState |-> self.initialState,
     finalStates |-> self.finalStates,
     transitions |-> self.transitions]

C16_OnlyRuntimeStateChanges ==
    [][/\ spec' = spec
       /\ dfa.built => (dfa'.built /\ Fixed(dfa') = Fixed(dfa))
       /\ nfa.built => (nfa'.built /\ Fixed(nfa') = Fixed(nfa))
       /\ call'.op \in DFAQueries \cup NFAQueries => (dfa' = dfa /\ nfa' = nfa)
       /\ call'.op = "DFA.transition" => nfa' = nfa
       /\ call'.op = "NFA.transition" => dfa' = dfa]_vars

\* isAcceptingState() has just been asked of an NFA that has left its initial state,
\* beside a DFA that has reached the error state
C16_Witness ==
    /\ dfa.built
    /\ nfa.built
    /\ call.op = "NFA.isAcceptingState"
    /\ NFA_getCurrentStates(nfa) \notin {<<>>, <<nfa.initialState>>}
    /\ DFA_isErrorState(dfa)

(***************************************************************************)
(* C17: DFA construction fails with the non-determinism error whenever a   *)
(* transition tuple has the same (from, symbol) as an earlier tuple of the *)
(* list, also when both tuples name the same to state (an exact            *)
(* duplicate); the later tuple never overwrites the earlier table entry.   *)
(***************************************************************************)
\* the pairs of tuples of a well-formed spec with the same (from, symbol), earlier
\* tuple first, whatever their to states
Repeats(d) ==
    {p \in (1..Len(d.transitions)) \X (1..Len(d.transitions)) :
        /\ p[1] < p[2]
        /\ d.transitions[p[1]][1] = d.transitions[p[2]][1]
        /\ d.transitions[p[1]][3] = d.transitions[p[2]][3]}

C17_RepeatedPairRejectedByDfa ==
    (SpecWellFormed(spec) /\ Repeats(spec) # {} /\ dfa # NotConstructed)
        => /\ ~dfa.built
           /\ dfa.error.msg = "this transition results in non-deterministic behavior"
           /\ dfa.error.value = spec.transitions[Earliest({p[2] : p \in Repeats(spec)})]

\* the DFA constructor has thrown for a spec whose only repetition is an exact
\* duplicate
C17_Witness ==
    /\ SpecWellFormed(spec)
    /\ Repeats(spec) # {}
    /\ Conflicts(spec) = {}
    /\ dfa # NotConstructed
    /\ ~dfa.built

(***************************************************************************)
(* C18: for every constructed DFA or NFA, in every reachable runtime       *)
(* state, transition(symbol) with a symbol of the alphabet raises no       *)
(* error: a missing table entry becomes a move to the DFA error state or   *)
(* an empty contribution to the NFA active set.                            *)
(***************************************************************************)
C18_AlphabetSymbolNeverThrows ==
    /\ dfa.built =>
          \A input \in Range(spec.alphabet) :
              LET r == DFA_transition(dfa, input)
              IN  /\ ~r.threw
                  /\ (~DFA_isErrorState(dfa) /\ DfaTargets(dfa, dfa.currentState, input) = {})
                        => DFA_isErrorState(r.value)
    /\ nfa.built =>
          \A input \in Range(spec.alphabet) :
              LET r == NFA_transition(nfa, input)
              IN  /\ ~r.threw
                  /\ (\A s \in Range(NFA_getCurrentStates(nfa)) : NfaTargets(nfa, s, input) = {})
                        => NFA_getCurrentStates(r.value) = <<>>

\* both automata of a spec without transitions have taken a symbol of the alphabet
\* and are dead, the last call having returned normally
C18_Witness ==
    /\ dfa.built
    /\ nfa.built
    /\ spec.transitions = <<>>
    /\ DFA_isErrorState(dfa)
    /\ NFA_isErrorState(nfa)
    /\ call.op \in {"DFA.transition", "NFA.transition"}
    /\ call.arg \in Range(spec.alphabet)
    /\ call.error = NoError

(***************************************************************************)
(* C19: a transition(symbol) call that fails because symbol is not in the  *)
(* alphabet leaves the runtime state unchanged: the DFA current state and  *)
(* error flag, and the NFA active collection, are after the failed call    *)
(* what they were before it.                                               *)
(***************************************************************************)
C19_FailedTransitionChangesNothing ==
    [][(call'.op \in {"DFA.transition", "NFA.transition"} /\ call'.error # NoError)
          => /\ call'.arg \notin Range(spec.alphabet)
             /\ dfa' = dfa
             /\ nfa' = nfa]_vars

\* a transition of the DFA has thrown while the DFA was away from its initial state
\* and not in the error state
C19_Witness ==
    /\ dfa.built
    /\ call.op = "DFA.transition"
    /\ call.error # NoError
    /\ ~DFA_isErrorState(dfa)
    /\ DFA_getCurrentState(dfa) # dfa.initialState

(***************************************************************************)
(* C20: in no reachable state of an NFA are isErrorState() and             *)
(* isAcceptingState() both true: when the active set is empty,             *)
(* isAcceptingState() returns false.                                       *)
(***************************************************************************)
C20_NfaNeverDeadAndAccepting ==
    nfa.built => ~(NFA_isErrorState(nfa) /\ NFA_isAcceptingState(nfa))

(***************************************************************************)
(* C21: for every spec accepted by both constructors, a DFA and an NFA     *)
(* built from it and fed the same sequence of symbols stay in              *)
(* correspondence after every step: the NFA is in its error state exactly  *)
(* when the DFA is, and otherwise the NFA active collection holds exactly  *)
(* one element, equal to the DFA current state.                            *)
(***************************************************************************)
\* both automata are built and have been given the same inputs
SameInputsFed == dfa.built /\ nfa.built /\ call.op # "DFA.transition"

C21_DfaAndNfaCorrespond ==
    SameInputsFed =>
        /\ NFA_isErrorState(nfa) <=> DFA_isErrorState(dfa)
        /\ ~DFA_isErrorState(dfa) =>
              NFA_getCurrentStates(nfa) = <<DFA_getCurrentState(dfa)>>

\* both automata have followed a table entry away from the initial state, the NFA
\* last
C21_Witness ==
    /\ SameInputsFed
    /\ NfaMoved
    /\ call.arg \in Range(spec.alphabet)
    /\ ~DFA_isErrorState(dfa)
    /\ DFA_getCurrentState(dfa) # dfa.initialState
    /\ NFA_getCurrentStates(nfa) = <<DFA_getCurrentState(dfa)>>

====
